---- MODULE Spec2Model ----
(***************************************************************************)
(* Split-view layout and focus coordination of inye-tunnel.                *)
(*                                                                         *)
(*  - SplitPaneContainer (split-pane-container): divider drag, ratio       *)
(*    arithmetic, capture-phase focus arbitration.                         *)
(*  - CompactSessionCard (compact-session-card): drag-and-drop split       *)
(*    initiation.                                                          *)
(*  - SplitGroupCard (split-group-card): active / persisted projection.    *)
(*                                                                         *)
(* Every action is one browser task: the event handler followed by the     *)
(* Lit update (render + updated) that the handler's property writes        *)
(* schedule as a microtask.                                                *)
(***************************************************************************)
EXTENDS Integers, Sequences, FiniteSets, TLC

(***************************************************************************)
(* Bounds of the model.                                                    *)
(***************************************************************************)
MaxX == 1
MaxFrames == 1
MaxRun == 2
MaxPending == 2

(***************************************************************************)
(* SPLIT_PANE constants.  They are imported from utils/constants.js; the   *)
(* pixel values are scaled down to small units, the arithmetic is the      *)
(* same.                                                                   *)
(***************************************************************************)
MIN_WIDTH == 1
DIVIDER_WIDTH == 2

(***************************************************************************)
(* JavaScript numbers.  A number is an exact rational n/d in lowest terms  *)
(* (d > 0) or one of the IEEE specials NaN, +Infinity, -Infinity.          *)
(***************************************************************************)
Abs(i) == IF i < 0 THEN -i ELSE i

RECURSIVE Gcd(_, _)
Gcd(a, b) == IF b = 0 THEN a ELSE Gcd(b, a % b)

Rat(n, d) ==
    LET s == IF d < 0 THEN -1 ELSE 1
        g == Gcd(Abs(n), Abs(d))
    IN  [k |-> "fin", n |-> (s * n) \div g, d |-> (s * d) \div g]

NaN  == [k |-> "nan",  n |-> 0, d |-> 1]
PInf == [k |-> "pinf", n |-> 0, d |-> 1]
NInf == [k |-> "ninf", n |-> 0, d |-> 1]

IsFinite(x) == x.k = "fin"

\* a / b for integer-valued operands
NumDiv(a, b) ==
    IF b # 0 THEN Rat(a, b)
    ELSE IF a > 0 THEN PInf
    ELSE IF a < 0 THEN NInf
    ELSE NaN

\* x + y
NumAdd(x, y) ==
    IF x.k = "nan" \/ y.k = "nan" THEN NaN
    ELSE IF x.k = "fin" /\ y.k = "fin" THEN Rat(x.n * y.d + y.n * x.d, x.d * y.d)
    ELSE IF x.k = "fin" THEN y
    ELSE IF y.k = "fin" THEN x
    ELSE IF x.k = y.k THEN x
    ELSE NaN

\* -x
NumNeg(x) ==
    IF x.k = "fin" THEN Rat(-(x.n), x.d)
    ELSE IF x.k = "pinf" THEN NInf
    ELSE IF x.k = "ninf" THEN PInf
    ELSE NaN

\* x < y  (false when either is NaN)
NumLt(x, y) ==
    IF x.k = "nan" \/ y.k = "nan" THEN FALSE
    ELSE IF x.k = "fin" /\ y.k = "fin" THEN x.n * y.d < y.n * x.d
    ELSE IF x.k = y.k THEN FALSE
    ELSE x.k = "ninf" \/ y.k = "pinf"

\* x <= y  (false when either is NaN)
NumLeq(x, y) ==
    IF x.k = "nan" \/ y.k = "nan" THEN FALSE
    ELSE x = y \/ NumLt(x, y)

\* Math.max(x, y), Math.min(x, y)
MathMax(x, y) ==
    IF x.k = "nan" \/ y.k = "nan" THEN NaN
    ELSE IF NumLt(x, y) THEN y ELSE x

MathMin(x, y) ==
    IF x.k = "nan" \/ y.k = "nan" THEN NaN
    ELSE IF NumLt(y, x) THEN y ELSE x

One == Rat(1, 1)
DEFAULT_RATIO == Rat(1, 2)

(***************************************************************************)
(* Input domains.                                                          *)
(***************************************************************************)
Ids == {"A", "B"}
\* clientX of a pointer event
Xs == 0 .. MaxX
\* clientWidth of #split-pane-root at the moment a drag starts
\* (container narrower than the divider, as wide as the divider, narrower than
\* two minimum panes, wide enough)
ClientWidths == {0, DIVIDER_WIDTH, DIVIDER_WIDTH + MIN_WIDTH,
                 DIVIDER_WIDTH + 4 * MIN_WIDTH}
\* ratios the embedding application assigns to splitRatio
Ratios == {DEFAULT_RATIO, Rat(0, 1)}
\* pane lists the embedding application assigns to panes (session ids)
PaneLists == {<<"A">>, <<"A", "B">>, <<"A", "A">>}
\* where a pointer-down can land inside the element
Targets == {"left", "right", "divider", "root", "host"}

VARIABLES
    \* ---- SplitPaneContainer ----
    panes,            \* this.panes (sequence of session ids)
    activePaneIndex,  \* this.activePaneIndex
    splitRatio,       \* this.splitRatio
    isDragging,       \* this.isDragging
    dragStartX,       \* this.dragStartX
    dragStartRatio,   \* this.dragStartRatio
    containerWidth,   \* this.containerWidth
    connected,        \* element is in the document (capture listener attached)
    hasUpdated,       \* Lit has performed the first update
    docListeners,     \* this container's listeners registered on document
    bodyStyle,        \* document.body.style {userSelect, cursor} override active
    dom,              \* last committed render: [panes, ratio]
    raf,              \* number of pending requestAnimationFrame callbacks
    emitted,          \* events dispatched by the last task, in order
    last,             \* the last task: [op, tgt, x]; x is the clientX of a mouseup
    keyboardCaptureActive, \* this.keyboardCaptureActive
    paneProps,        \* keyboardCaptureActive bound to the session-view of the
                      \* left and of the right pane by the last committed render
    peer,             \* the drag controller of a second SplitPaneContainer in
                      \* the same document: [connected, isDragging, splitRatio,
                      \* dragStartX, dragStartRatio, containerWidth, docListeners]
    \* ---- observers (history of the run, not program state) ----
    focusRun,         \* pane-focus events raised by the pointer-downs of the
                      \* current run of consecutive pointer-downs on one target
    ratioSrc          \* what last wrote splitRatio in the drag in progress or just
                      \* ended: [by |-> "start" | "move" | "assigned", x |-> clientX
                      \* of that pointer-move]; "start" outside a drag

VARIABLES
    \* ---- CompactSessionCard (two cards of a session list) ----
    cardSession,      \* card -> this.session.id
    isDragOver,       \* card -> this.isDragOver
    opacity50,        \* card -> root div carries the class 'opacity-50'
    drag,             \* the browser drag in progress and its dataTransfer
    cardStatus,       \* card -> this.session.status
    pending,          \* card -> deleteSession calls that have not reported yet
    requested,        \* card -> the session passed to the only deleteSession call
                      \* in flight, [id, status]; NoRequest when none is in
                      \* flight or more than one
    cardEmitted,      \* events dispatched by the last task
    cardLast,         \* the last task: [op, card]
    \* ---- SplitGroupCard ----
    leftSession,      \* this.leftSession
    rightSession,     \* this.rightSession
    mode,             \* this.mode
    groupId,          \* this.groupId
    groupView,        \* last committed render
    groupEmitted,     \* events dispatched by the last task
    groupLast         \* the last task: [op, tgt]

cardVars == <<cardSession, isDragOver, opacity50, drag, cardStatus, pending,
              requested,
              cardEmitted, cardLast>>

groupVars == <<leftSession, rightSession, mode, groupId, groupView,
               groupEmitted, groupLast>>

paneVars == <<panes, activePaneIndex, splitRatio, isDragging, dragStartX,
              dragStartRatio, containerWidth, connected, hasUpdated,
              docListeners, bodyStyle, dom, raf, emitted, last, peer,
              keyboardCaptureActive, paneProps, focusRun, ratioSrc>>

vars == <<paneVars, cardVars, groupVars>>

(***************************************************************************)
(* Events raised by SplitPaneContainer.                                    *)
(***************************************************************************)
PaneFocus(i)   == [type |-> "pane-focus",   index |-> i,  ratio |-> NaN]
SplitResize(r) == [type |-> "split-resize", index |-> -1, ratio |-> r]
TerminalResize(i) == [type |-> "terminal-resize", index |-> i, ratio |-> NaN]

Task(op, tgt) == [op |-> op, tgt |-> tgt, x |-> 0]
TaskAt(op, tgt, x) == [op |-> op, tgt |-> tgt, x |-> x]

(***************************************************************************)
(* Rendering and the Lit update cycle.                                     *)
(***************************************************************************)
EmptyDom == [panes |-> <<>>, ratio |-> NaN]

\* variant: the pane width is rendered from the ratio held before the task
Render_StaleRatio(p, r) ==
    IF Len(p) < 2 THEN EmptyDom
    ELSE [panes |-> <<p[1], p[2]>>, ratio |-> splitRatio]

\* render(): nothing with fewer than two panes, else root + left + divider + right
Render(p, r) ==
    IF Len(p) < 2 THEN EmptyDom
    ELSE [panes |-> <<p[1], p[2]>>, ratio |-> r]

\* variant: the right pane is bound to the container's flag alone
RenderProps_RightUnconditional(p, api, kca) ==
    IF Len(p) < 2 THEN <<FALSE, FALSE>>
    ELSE <<api = 0 /\ kca, kca>>

\* render(): .keyboardCaptureActive of the left and of the right session-view
RenderProps(p, api, kca) ==
    IF Len(p) < 2 THEN <<FALSE, FALSE>>
    ELSE <<api = 0 /\ kca, api = 1 /\ kca>>

\* updated(changedProperties): does the update call refitAllTerminals()?
UpdatedRefits(changed, dragging) ==
    "splitRatio" \in changed /\ ~dragging

\* The update that follows a task whose handler changed the properties in
\* `changed` and called refitAllTerminals() `direct` times itself.
\* `kca` is the value of keyboardCaptureActive after the task.
CommitWith(changed, direct, kca) ==
    LET upd == hasUpdated' /\ changed # {}
        viaUpdated == IF upd /\ UpdatedRefits(changed, isDragging') THEN 1 ELSE 0
    IN  /\ dom' = IF upd THEN Render(panes', splitRatio') ELSE dom
        /\ paneProps' = IF upd
                        THEN RenderProps(panes', activePaneIndex', kca)
                        ELSE paneProps
        /\ raf' = raf + direct + viaUpdated
        /\ raf' <= MaxFrames

\* The update that follows a task that leaves keyboardCaptureActive alone.
Commit(changed, direct) == CommitWith(changed, direct, keyboardCaptureActive)

AllProps == {"panes", "activePaneIndex", "splitRatio", "isDragging",
             "keyboardCaptureActive"}

(***************************************************************************)
(* DOM queries on the committed render.                                    *)
(***************************************************************************)
\* variant: the last element with that id is returned
QueryPane_Last(id) ==
    IF dom.panes = <<>> THEN "null"
    ELSE IF dom.panes[2] = id THEN "right"
    ELSE IF dom.panes[1] = id THEN "left"
    ELSE "null"

\* this.querySelector(`#split-pane-${id}`): the first element with that id
QueryPane(id) ==
    IF dom.panes = <<>> THEN "null"
    ELSE IF dom.panes[1] = id THEN "left"
    ELSE IF dom.panes[2] = id THEN "right"
    ELSE "null"

\* this.querySelector('#split-divider'), this.querySelector('#split-pane-root')
QueryDivider == IF dom.panes = <<>> THEN "null" ELSE "divider"
QueryRoot    == IF dom.panes = <<>> THEN "null" ELSE "root"

\* el.contains(target); a target names the subtree the pointer landed in
Contains(el, tgt) == el # "null" /\ el = tgt

\* targets that exist in the committed render
LiveTargets == IF dom.panes = <<>> THEN {"host"} ELSE Targets \ {"host"}

(***************************************************************************)
(* handlePaneMouseDown: the events it dispatches for a pointer target.     *)
(***************************************************************************)
\* variant: dispatches also when the pane is already the active one
RECURSIVE PaneLoop_NoActiveCheck(_, _)
PaneLoop_NoActiveCheck(i, tgt) ==
    IF i > Len(panes) THEN <<>>
    ELSE IF Contains(QueryPane(panes[i]), tgt)
         THEN <<PaneFocus(i - 1)>>
         ELSE PaneLoop_NoActiveCheck(i + 1, tgt)

\* variant: takes the first pane element that exists, without contains()
RECURSIVE PaneLoop_NoHitTest(_, _)
PaneLoop_NoHitTest(i, tgt) ==
    IF i > Len(panes) THEN <<>>
    ELSE IF QueryPane(panes[i]) # "null"
         THEN IF activePaneIndex # i - 1 THEN <<PaneFocus(i - 1)>> ELSE <<>>
         ELSE PaneLoop_NoHitTest(i + 1, tgt)

RECURSIVE PaneLoop(_, _)
PaneLoop(i, tgt) ==
    IF i > Len(panes) THEN <<>>
    ELSE IF Contains(QueryPane(panes[i]), tgt)
         THEN IF activePaneIndex # i - 1 THEN <<PaneFocus(i - 1)>> ELSE <<>>
         ELSE PaneLoop(i + 1, tgt)

handlePaneMouseDown(tgt) ==
    IF Contains(QueryDivider, tgt) THEN <<>>
    ELSE PaneLoop(1, tgt)

\* the capture listener runs only while it is attached (connected)
CapturePhase(tgt) == IF connected THEN handlePaneMouseDown(tgt) ELSE <<>>

(***************************************************************************)
(* handleMouseMove: the ratio it stores.                                   *)
(***************************************************************************)
MinRatioOf(w) == NumDiv(MIN_WIDTH, w)
MaxRatioOf(w) == NumAdd(One, NumNeg(MinRatioOf(w)))

\* variant: the lower bound is not enforced
MoveRatio_NoMin(x, startX, startRatio, w) ==
    LET deltaX     == x - startX
        deltaRatio == NumDiv(deltaX, w)
        newRatio   == NumAdd(startRatio, deltaRatio)
        minRatio   == MinRatioOf(w)
        maxRatio   == MaxRatioOf(w)
    IN  MathMin(maxRatio, newRatio)

\* variant: the delta is added to the current ratio, not to the start ratio
MoveRatio_Accumulate(x, startX, startRatio, w) ==
    LET deltaX     == x - startX
        deltaRatio == NumDiv(deltaX, w)
        newRatio   == NumAdd(splitRatio, deltaRatio)
        minRatio   == MinRatioOf(w)
        maxRatio   == MaxRatioOf(w)
    IN  MathMax(minRatio, MathMin(maxRatio, newRatio))

MoveRatio(x, startX, startRatio, w) ==
    LET deltaX     == x - startX
        deltaRatio == NumDiv(deltaX, w)
        newRatio   == NumAdd(startRatio, deltaRatio)
        minRatio   == MinRatioOf(w)
        maxRatio   == MaxRatioOf(w)
    IN  MathMax(minRatio, MathMin(maxRatio, newRatio))

(***************************************************************************)
(* Observer of the drag in progress.                                       *)
(***************************************************************************)
AtStart     == [by |-> "start", x |-> 0]
ByMove(x)   == [by |-> "move", x |-> x]
ByAssigned  == [by |-> "assigned", x |-> 0]

\* tasks that neither move nor assign keep the observer during a drag
KeepObserver == ratioSrc' = IF isDragging' THEN ratioSrc ELSE AtStart

(***************************************************************************)
(* A second SplitPaneContainer of the same document.  Its two panes are    *)
(* fixed; only its drag controller is kept.  document and document.body    *)
(* (bodyStyle) are the ones the first container uses.                      *)
(***************************************************************************)
PeerIdle(r) ==
    [connected |-> FALSE, isDragging |-> FALSE, splitRatio |-> r,
     dragStartX |-> 0, dragStartRatio |-> Rat(0, 1), containerWidth |-> 0,
     docListeners |-> {}]

\* handleMouseMove of the second container, when document delivers mousemove
PeerAfterMove(x) ==
    IF "mousemove" \in peer.docListeners /\ peer.isDragging
    THEN [peer EXCEPT !.splitRatio = MoveRatio(x, peer.dragStartX,
                                               peer.dragStartRatio,
                                               peer.containerWidth)]
    ELSE peer

\* handleMouseUp of the second container, when document delivers mouseup
PeerHandlesUp == "mouseup" \in peer.docListeners /\ peer.isDragging

PeerAfterUp ==
    IF PeerHandlesUp
    THEN [peer EXCEPT !.isDragging = FALSE,
                      !.docListeners = @ \ {"mousemove", "mouseup"}]
    ELSE peer

(***************************************************************************)
(* SplitPaneContainer: initial state (constructed, properties assigned by *)
(* the embedding application, not yet connected).                          *)
(***************************************************************************)
PaneInit ==
    /\ panes \in PaneLists
    /\ keyboardCaptureActive = TRUE
    /\ paneProps = <<FALSE, FALSE>>
    /\ activePaneIndex \in {0, 1}
    /\ splitRatio \in Ratios
    /\ isDragging = FALSE
    /\ dragStartX = 0
    /\ dragStartRatio = Rat(0, 1)
    /\ containerWidth = 0
    /\ connected = FALSE
    /\ hasUpdated = FALSE
    /\ docListeners = {}
    /\ bodyStyle = FALSE
    /\ dom = EmptyDom
    /\ raf = 0
    /\ emitted = <<>>
    /\ last = Task("init", "none")
    /\ ratioSrc = AtStart
    /\ focusRun = 0

(***************************************************************************)
(* SplitPaneContainer: tasks.                                              *)
(***************************************************************************)
\* connectedCallback, and the first update when this is the first connection
Connect ==
    /\ ~connected
    /\ connected' = TRUE
    /\ hasUpdated' = TRUE
    /\ UNCHANGED <<panes, activePaneIndex, splitRatio, isDragging, dragStartX,
                   dragStartRatio, containerWidth, docListeners, bodyStyle>>
    /\ KeepObserver
    /\ Commit(IF hasUpdated THEN {} ELSE AllProps, 0)
    /\ emitted' = <<>>
    /\ last' = Task("connect", "none")
    /\ focusRun' = 0
    /\ UNCHANGED <<keyboardCaptureActive, peer, cardVars, groupVars>>

\* variant: the document listeners are left registered
DisconnectListeners_Keep(ls) == ls

\* disconnectedCallback
DisconnectListeners(ls) == {}

Disconnect ==
    /\ connected
    /\ connected' = FALSE
    /\ docListeners' = DisconnectListeners(docListeners)
    /\ UNCHANGED <<panes, activePaneIndex, splitRatio, isDragging, dragStartX,
                   dragStartRatio, containerWidth, hasUpdated, bodyStyle>>
    /\ KeepObserver
    /\ Commit({}, 0)
    /\ emitted' = <<>>
    /\ last' = Task("disconnect", "none")
    /\ focusRun' = 0
    /\ UNCHANGED <<keyboardCaptureActive, peer, cardVars, groupVars>>

\* the embedding application assigns a property
SetPanes(p) ==
    /\ hasUpdated
    /\ p # panes
    /\ panes' = p
    /\ UNCHANGED <<activePaneIndex, splitRatio, isDragging, dragStartX,
                   dragStartRatio, containerWidth, connected, hasUpdated,
                   docListeners, bodyStyle>>
    /\ KeepObserver
    /\ Commit({"panes"}, 0)
    /\ emitted' = <<>>
    /\ last' = Task("setPanes", "none")
    /\ focusRun' = 0
    /\ UNCHANGED <<keyboardCaptureActive, peer, cardVars, groupVars>>

SetActivePaneIndex(i) ==
    /\ hasUpdated
    /\ i # activePaneIndex
    /\ activePaneIndex' = i
    /\ UNCHANGED <<panes, splitRatio, isDragging, dragStartX,
                   dragStartRatio, containerWidth, connected, hasUpdated,
                   docListeners, bodyStyle>>
    /\ KeepObserver
    /\ Commit({"activePaneIndex"}, 0)
    /\ emitted' = <<>>
    /\ last' = Task("setActivePaneIndex", "none")
    /\ focusRun' = 0
    /\ UNCHANGED <<keyboardCaptureActive, peer, cardVars, groupVars>>

SetSplitRatio(r) ==
    /\ hasUpdated
    /\ r # splitRatio
    /\ splitRatio' = r
    /\ ratioSrc' = IF isDragging THEN ByAssigned ELSE AtStart
    /\ UNCHANGED <<panes, activePaneIndex, isDragging, dragStartX,
                   dragStartRatio, containerWidth, connected, hasUpdated,
                   docListeners, bodyStyle>>
    /\ Commit({"splitRatio"}, 0)
    /\ emitted' = <<>>
    /\ last' = Task("setSplitRatio", "none")
    /\ focusRun' = 0
    /\ UNCHANGED <<keyboardCaptureActive, peer, cardVars, groupVars>>

\* mousedown on a node of the element other than the divider
PaneMouseDown(tgt) ==
    /\ connected
    /\ tgt \in LiveTargets \ {"divider"}
    /\ LET evs == CapturePhase(tgt)
       IN  /\ emitted' = evs
           /\ focusRun' = (IF last.op = "paneMouseDown" /\ last.tgt = tgt
                            THEN focusRun ELSE 0) + Len(evs)
           /\ focusRun' <= MaxRun
    /\ UNCHANGED <<panes, activePaneIndex, splitRatio, isDragging, dragStartX,
                   dragStartRatio, containerWidth, connected, hasUpdated,
                   docListeners, bodyStyle>>
    /\ KeepObserver
    /\ Commit({}, 0)
    /\ last' = Task("paneMouseDown", tgt)
    /\ UNCHANGED <<keyboardCaptureActive, peer, cardVars, groupVars>>

(***************************************************************************)
(* Dispatch of one mousedown: the listeners that run, in order.  The host  *)
(* listener is handlePaneMouseDown; the divider's is                       *)
(* handleDividerMouseDown, which calls stopPropagation(); "content" is a   *)
(* listener of the session-view inside a pane, which may call              *)
(* stopPropagation() (`stops`).                                            *)
(***************************************************************************)
\* third argument of this.addEventListener('mousedown', ..., true)
PaneListenerCapture == TRUE

InnerListeners(tgt) ==
    IF tgt = "divider" THEN <<"handleDividerMouseDown">>
    ELSE IF tgt \in {"left", "right"} THEN <<"content">>
    ELSE <<>>

MouseDownListeners(tgt, stops) ==
    LET host    == IF connected THEN <<"handlePaneMouseDown">> ELSE <<>>
        stopped == tgt = "divider" \/ (tgt \in {"left", "right"} /\ stops)
    IN  IF PaneListenerCapture
        THEN host \o InnerListeners(tgt)
        ELSE InnerListeners(tgt) \o (IF stopped THEN <<>> ELSE host)

Ran(name, ls) == \E i \in 1 .. Len(ls) : ls[i] = name

\* mousedown inside a pane whose content listens to mousedown itself
ContentMouseDown(tgt, stops) ==
    /\ connected
    /\ tgt \in LiveTargets \cap {"left", "right"}
    /\ LET ran == MouseDownListeners(tgt, stops)
       IN  /\ emitted' = IF Ran("handlePaneMouseDown", ran)
                         THEN handlePaneMouseDown(tgt) ELSE <<>>
           /\ last' = [op |-> "contentMouseDown", tgt |-> tgt, x |-> 0,
                        ran |-> ran, stops |-> stops]
    /\ focusRun' = 0
    /\ UNCHANGED <<panes, activePaneIndex, splitRatio, isDragging, dragStartX,
                   dragStartRatio, containerWidth, connected, hasUpdated,
                   docListeners, bodyStyle>>
    /\ KeepObserver
    /\ Commit({}, 0)
    /\ UNCHANGED <<keyboardCaptureActive, peer, cardVars, groupVars>>

\* the embedding application assigns keyboardCaptureActive
SetKeyboardCaptureActive(v) ==
    /\ keyboardCaptureActive' = v
    /\ UNCHANGED <<panes, activePaneIndex, splitRatio, isDragging, dragStartX,
                   dragStartRatio, containerWidth, connected, hasUpdated,
                   docListeners, bodyStyle>>
    /\ KeepObserver
    /\ CommitWith(IF v # keyboardCaptureActive
                  THEN {"keyboardCaptureActive"} ELSE {}, 0, v)
    /\ emitted' = <<>>
    /\ last' = Task("setKeyboardCaptureActive", "none")
    /\ focusRun' = 0
    /\ UNCHANGED <<peer, cardVars, groupVars>>

\* mousedown on the divider: capture listener first, then handleDividerMouseDown
\* variant: only the pointer-move listener is registered
DividerListeners_MoveOnly(ls) == ls \cup {"mousemove"}

\* document.addEventListener with the bound handlers of this instance (a
\* listener that is already registered is not added again)
DividerListeners(ls) == ls \cup {"mousemove", "mouseup"}

DividerMouseDown(x, clientWidth) ==
    /\ connected
    /\ "divider" \in LiveTargets
    /\ LET evs == CapturePhase("divider")
       IN  emitted' = evs
    /\ isDragging' = TRUE
    /\ dragStartX' = x
    /\ dragStartRatio' = splitRatio
    /\ containerWidth' = IF QueryRoot # "null"
                         THEN clientWidth - DIVIDER_WIDTH
                         ELSE containerWidth
    /\ docListeners' = DividerListeners(docListeners)
    /\ bodyStyle' = TRUE
    /\ ratioSrc' = AtStart
    /\ UNCHANGED <<panes, activePaneIndex, splitRatio, connected, hasUpdated>>
    /\ Commit(IF isDragging THEN {} ELSE {"isDragging"}, 0)
    /\ last' = [op |-> "dividerMouseDown", tgt |-> "divider", x |-> 0,
                 ran |-> MouseDownListeners("divider", FALSE)]
    /\ focusRun' = 0
    /\ UNCHANGED <<keyboardCaptureActive, peer, cardVars, groupVars>>

\* mousemove reaches document; handleMouseMove runs if it is registered
DocumentMouseMove(x) ==
    /\ IF "mousemove" \in docListeners /\ isDragging
       THEN /\ splitRatio' = MoveRatio(x, dragStartX, dragStartRatio, containerWidth)
            /\ ratioSrc' = ByMove(x)
       ELSE /\ UNCHANGED splitRatio
            /\ ratioSrc' = IF isDragging THEN ratioSrc ELSE AtStart
    /\ UNCHANGED <<panes, activePaneIndex, isDragging, dragStartX,
                   dragStartRatio, containerWidth, connected, hasUpdated,
                   docListeners, bodyStyle>>
    /\ Commit(IF splitRatio' # splitRatio THEN {"splitRatio"} ELSE {}, 0)
    /\ emitted' = <<>>
    /\ peer' = PeerAfterMove(x)
    /\ last' = Task("documentMouseMove", "document")
    /\ focusRun' = 0
    /\ UNCHANGED <<keyboardCaptureActive, cardVars, groupVars>>

\* mouseup reaches document; handleMouseUp runs if it is registered
\* variant: the resize event is dispatched twice
MouseUpEvents_Twice(r) == <<SplitResize(r), SplitResize(r)>>

MouseUpEvents(r) == <<SplitResize(r)>>

DocumentMouseUp(x) ==
    /\ IF "mouseup" \in docListeners /\ isDragging
       THEN /\ isDragging' = FALSE
            /\ docListeners' = docListeners \ {"mousemove", "mouseup"}
            /\ bodyStyle' = FALSE
            /\ emitted' = MouseUpEvents(splitRatio)
            /\ UNCHANGED <<panes, activePaneIndex, splitRatio, dragStartX,
                           dragStartRatio, containerWidth, connected, hasUpdated,
                           focusRun, ratioSrc>>
            /\ Commit({"isDragging"}, 1)
       ELSE /\ emitted' = <<>>
            /\ bodyStyle' = IF PeerHandlesUp THEN FALSE ELSE bodyStyle
            /\ UNCHANGED <<panes, activePaneIndex, splitRatio, isDragging,
                           dragStartX, dragStartRatio, containerWidth, connected,
                           hasUpdated, docListeners>>
            /\ KeepObserver
            /\ Commit({}, 0)
    /\ peer' = PeerAfterUp
    /\ last' = TaskAt("documentMouseUp", "document", x)
    /\ focusRun' = 0
    /\ UNCHANGED <<keyboardCaptureActive, cardVars, groupVars>>

\* an animation frame: every pending refitAllTerminals callback runs
RefitEvents ==
    LET idx == {i \in 1 .. Len(panes) : QueryPane(panes[i]) # "null"}
        RECURSIVE Seq1(_)
        Seq1(i) == IF i > Len(panes) THEN <<>>
                   ELSE (IF i \in idx THEN <<TerminalResize(i - 1)>> ELSE <<>>)
                        \o Seq1(i + 1)
    IN  Seq1(1)

RECURSIVE Repeat(_, _)
Repeat(s, n) == IF n = 0 THEN <<>> ELSE s \o Repeat(s, n - 1)

RunFrame ==
    /\ raf > 0
    /\ emitted' = Repeat(RefitEvents, raf)
    /\ raf' = 0
    /\ UNCHANGED <<panes, activePaneIndex, splitRatio, isDragging, dragStartX,
                   dragStartRatio, containerWidth, connected, hasUpdated,
                   docListeners, bodyStyle, dom, paneProps>>
    /\ KeepObserver
    /\ last' = Task("runFrame", "none")
    /\ focusRun' = 0
    /\ UNCHANGED <<keyboardCaptureActive, peer, cardVars, groupVars>>

(***************************************************************************)
(* SplitPaneContainer: events of pane content and forwardEvent.            *)
(***************************************************************************)
ForwardedNames == {"navigate-to-list", "toggle-sidebar", "create-session",
                   "session-status-changed", "open-settings", "capture-toggled"}
\* names session-view raises on itself (the six above and two the container
\* has no use for)
ContentNames == ForwardedNames \cup {"hover-state", "terminal-ready"}
Details == {"null", "d1"}

\* an event as session-view dispatches it
ContentEventOf(name, detail, bubbles, composed) ==
    [type |-> name, detail |-> detail, bubbles |-> bubbles, composed |-> composed]

\* the @event bindings render() puts on the session-view of a pane
SessionViewListeners(pane) ==
    IF pane \in {"left", "right"} THEN ForwardedNames ELSE {}

\* variant: the clone keeps the flags of the original
forwardEvent_CopyFlags(e) ==
    <<[type |-> e.type, detail |-> e.detail, bubbles |-> e.bubbles,
       composed |-> e.composed]>>

\* forwardEvent(e): the events it dispatches on the container
forwardEvent(e) ==
    <<[type |-> e.type, detail |-> e.detail, bubbles |-> TRUE,
       composed |-> TRUE]>>

\* the session-view of a pane dispatches e on itself
ContentEvent(pane, e) ==
    /\ pane \in LiveTargets \cap {"left", "right"}
    /\ emitted' = IF e.type \in SessionViewListeners(pane)
                  THEN forwardEvent(e) ELSE <<>>
    /\ UNCHANGED <<panes, activePaneIndex, splitRatio, isDragging, dragStartX,
                   dragStartRatio, containerWidth, connected, hasUpdated,
                   docListeners, bodyStyle>>
    /\ KeepObserver
    /\ Commit({}, 0)
    /\ last' = [op |-> "contentEvent", tgt |-> pane, x |-> 0, event |-> e]
    /\ focusRun' = 0
    /\ UNCHANGED <<keyboardCaptureActive, peer, cardVars, groupVars>>

RelayNext ==
    \/ Connect
    \/ Disconnect
    \/ \E p \in PaneLists : SetPanes(p)
    \/ \E pane \in {"left", "right"}, n \in ContentNames, d \in Details,
          b \in BOOLEAN, c \in BOOLEAN :
          ContentEvent(pane, ContentEventOf(n, d, b, c))

(***************************************************************************)
(* Tasks of the second container.                                          *)
(***************************************************************************)
\* a task of the second container leaves the first container as it is
PeerTask(op) ==
    /\ UNCHANGED <<panes, activePaneIndex, splitRatio, isDragging, dragStartX,
                   dragStartRatio, containerWidth, connected, hasUpdated,
                   docListeners>>
    /\ KeepObserver
    /\ Commit({}, 0)
    /\ emitted' = <<>>
    /\ last' = Task(op, "peer")
    /\ focusRun' = 0
    /\ UNCHANGED <<keyboardCaptureActive, cardVars, groupVars>>

\* connectedCallback / disconnectedCallback of the second container
PeerConnect ==
    /\ ~peer.connected
    /\ peer' = [peer EXCEPT !.connected = TRUE]
    /\ UNCHANGED bodyStyle
    /\ PeerTask("peerConnect")

PeerDisconnect ==
    /\ peer.connected
    /\ peer' = [peer EXCEPT !.connected = FALSE,
                            !.docListeners = DisconnectListeners(@)]
    /\ UNCHANGED bodyStyle
    /\ PeerTask("peerDisconnect")

\* handleDividerMouseDown of the second container
PeerDividerMouseDown(x, clientWidth) ==
    /\ peer.connected
    /\ peer' = [peer EXCEPT !.isDragging = TRUE,
                            !.dragStartX = x,
                            !.dragStartRatio = peer.splitRatio,
                            !.containerWidth = clientWidth - DIVIDER_WIDTH,
                            !.docListeners = DividerListeners(@)]
    /\ bodyStyle' = TRUE
    /\ PeerTask("peerDividerMouseDown")

\* two containers in one document
PairWidths == {DIVIDER_WIDTH + 4 * MIN_WIDTH}

PairNext ==
    \/ Connect
    \/ Disconnect
    \/ \E x \in Xs, cw \in PairWidths : DividerMouseDown(x, cw)
    \/ \E x \in Xs : DocumentMouseMove(x)
    \/ \E x \in Xs : DocumentMouseUp(x)
    \/ RunFrame
    \/ PeerConnect
    \/ PeerDisconnect
    \/ \E x \in Xs, cw \in PairWidths : PeerDividerMouseDown(x, cw)

\* Focus arbitration: pointer-downs on pane content and on the divider, under
\* every assignment of the properties the arbiter and the render read.
FocusPaneLists == PaneLists \cup {<<"B", "A", "B">>}

FocusNext ==
    \/ Connect
    \/ Disconnect
    \/ \E p \in FocusPaneLists : SetPanes(p)
    \/ \E i \in {0, 1} : SetActivePaneIndex(i)
    \/ \E v \in BOOLEAN : SetKeyboardCaptureActive(v)
    \/ \E t \in {"left", "right"}, st \in BOOLEAN : ContentMouseDown(t, st)
    \/ \E x \in Xs, cw \in ClientWidths : DividerMouseDown(x, cw)
    \/ \E x \in Xs : DocumentMouseUp(x)
    \/ RunFrame

PaneNext ==
    \/ Connect
    \/ Disconnect
    \/ \E p \in PaneLists : SetPanes(p)
    \/ \E i \in {0, 1} : SetActivePaneIndex(i)
    \/ \E r \in Ratios : SetSplitRatio(r)
    \/ \E t \in Targets : PaneMouseDown(t)
    \/ \E x \in Xs, cw \in ClientWidths : DividerMouseDown(x, cw)
    \/ \E x \in Xs : DocumentMouseMove(x)
    \/ \E x \in Xs : DocumentMouseUp(x)
    \/ RunFrame

(***************************************************************************)
(* CompactSessionCard: drag source and drop target.                        *)
(***************************************************************************)
Cards == {1, 2}
SESSION_KEY == "application/vt-session-id"
\* session.status as the card reads it: 'exited' or anything else
CardStatuses == {"running", "exited"}
\* error strings the delete service reports
Errors == {"e1", "e2"}

SplitWithSession(a, b) ==
    [type |-> "split-with-session", dragged |-> a, target |-> b]

\* no drag in progress
NoDrag == [active |-> FALSE, source |-> 0, hasTransfer |-> FALSE,
           types |-> {}, data |-> ""]

\* e.dataTransfer?.types.includes(key)
TransferHasKey(d) == d.hasTransfer /\ SESSION_KEY \in d.types

\* e.dataTransfer?.getData(key): "" stands for undefined and for ''
TransferGetData(d) == IF TransferHasKey(d) THEN d.data ELSE ""

CardTask(op, c) == [op |-> op, card |-> c]

\* render(): the part of cardClasses that varies (this.selected is not set)
CardClassesOf(over, status) ==
    IF over THEN "drag-over"
    ELSE IF status = "exited" THEN "exited"
    ELSE "default"

\* class="${cardClasses}" on the root div: an update that changes cardClasses
\* rewrites the class attribute, which drops a class added through classList
AfterUpdate(op50) ==
    [c \in Cards |->
        IF CardClassesOf(isDragOver'[c], cardStatus'[c])
           # CardClassesOf(isDragOver[c], cardStatus[c])
        THEN FALSE ELSE op50[c]]

\* no single deleteSession call in flight
NoRequest == [id |-> "", status |-> ""]

CardInit ==
    /\ cardSession \in [Cards -> Ids]
    /\ cardStatus \in [Cards -> CardStatuses]
    /\ pending = [c \in Cards |-> 0]
    /\ requested = [c \in Cards |-> NoRequest]
    /\ isDragOver = [c \in Cards |-> FALSE]
    /\ opacity50 = [c \in Cards |-> FALSE]
    /\ drag = NoDrag
    /\ cardEmitted = <<>>
    /\ cardLast = CardTask("init", 0)

\* the session list assigns another session to a card
SetCardSession(c, id) ==
    /\ id # cardSession[c]
    /\ cardSession' = [cardSession EXCEPT ![c] = id]
    /\ cardEmitted' = <<>>
    /\ cardLast' = CardTask("setSession", c)
    /\ UNCHANGED <<isDragOver, opacity50, drag, cardStatus, pending, requested>>
    /\ UNCHANGED <<paneVars, groupVars>>

\* dragstart on card c; hasTransfer: the event carries a dataTransfer
CardDragStart(c, hasTransfer) ==
    /\ ~drag.active
    /\ IF hasTransfer
       THEN /\ drag' = [active |-> TRUE, source |-> c, hasTransfer |-> TRUE,
                        types |-> {SESSION_KEY}, data |-> cardSession[c]]
            /\ opacity50' = [opacity50 EXCEPT ![c] = TRUE]
       ELSE /\ drag' = [active |-> TRUE, source |-> c, hasTransfer |-> FALSE,
                        types |-> {}, data |-> ""]
            /\ UNCHANGED opacity50
    /\ cardEmitted' = <<>>
    /\ cardLast' = CardTask("dragstart", c)
    /\ UNCHANGED <<cardSession, isDragOver, cardStatus, pending, requested>>
    /\ UNCHANGED <<paneVars, groupVars>>

\* a drag that starts outside the cards (a file, another application)
ForeignDragStart(types, data) ==
    /\ ~drag.active
    /\ (SESSION_KEY \in types) \/ data = ""
    /\ drag' = [active |-> TRUE, source |-> 0, hasTransfer |-> TRUE,
                types |-> types, data |-> data]
    /\ cardEmitted' = <<>>
    /\ cardLast' = CardTask("foreignDragStart", 0)
    /\ UNCHANGED <<cardSession, isDragOver, opacity50, cardStatus, pending, requested>>
    /\ UNCHANGED <<paneVars, groupVars>>

\* variant: the class is left on the element
handleDragEnd_KeepClass(op50, c) == op50

\* handleDragEnd: target.classList.remove('opacity-50')
handleDragEnd(op50, c) == [op50 EXCEPT ![c] = FALSE]

\* dragend on the source card, or the end of a foreign drag
CardDragEnd ==
    /\ drag.active
    /\ drag' = NoDrag
    /\ opacity50' = IF drag.source \in Cards
                    THEN handleDragEnd(opacity50, drag.source)
                    ELSE opacity50
    /\ cardEmitted' = <<>>
    /\ cardLast' = CardTask("dragend", drag.source)
    /\ UNCHANGED <<cardSession, isDragOver, cardStatus, pending, requested>>
    /\ UNCHANGED <<paneVars, groupVars>>

\* variant: every transfer is accepted, whatever it carries
handleDragOver_NoKeyCheck(d) ==
    IF ~d.hasTransfer THEN [prevented |-> FALSE, dropEffect |-> "", over |-> FALSE]
    ELSE [prevented |-> TRUE, dropEffect |-> "move", over |-> TRUE]

\* handleDragOver: preventDefault() called, dropEffect written, isDragOver set
handleDragOver(d) ==
    IF ~TransferHasKey(d)
    THEN [prevented |-> FALSE, dropEffect |-> "", over |-> FALSE]
    ELSE [prevented |-> TRUE, dropEffect |-> "move", over |-> TRUE]

CardDragOver(c) ==
    /\ drag.active
    /\ LET out == handleDragOver(drag)
       IN  /\ isDragOver' = IF out.over
                            THEN [isDragOver EXCEPT ![c] = TRUE]
                            ELSE isDragOver
           /\ cardLast' = [op |-> "dragover", card |-> c,
                            prevented |-> out.prevented,
                            dropEffect |-> out.dropEffect]
    /\ cardEmitted' = <<>>
    /\ UNCHANGED <<cardSession, drag, cardStatus, pending, requested>>
    /\ opacity50' = AfterUpdate(opacity50)
    /\ UNCHANGED <<paneVars, groupVars>>

CardDragLeave(c) ==
    /\ drag.active
    /\ isDragOver' = [isDragOver EXCEPT ![c] = FALSE]
    /\ cardEmitted' = <<>>
    /\ cardLast' = CardTask("dragleave", c)
    /\ UNCHANGED <<cardSession, drag, cardStatus, pending, requested>>
    /\ opacity50' = AfterUpdate(opacity50)
    /\ UNCHANGED <<paneVars, groupVars>>

\* variant: the drop-on-self guard is missing
DropEvents_NoSelfGuard(draggedSessionId, ownId) ==
    IF draggedSessionId = "" THEN <<>>
    ELSE <<SplitWithSession(draggedSessionId, ownId)>>

\* handleDrop: the events it dispatches
DropEvents(draggedSessionId, ownId) ==
    IF draggedSessionId = "" THEN <<>>
    ELSE IF draggedSessionId = ownId THEN <<>>
    ELSE <<SplitWithSession(draggedSessionId, ownId)>>

CardDrop(c) ==
    /\ drag.active
    /\ isDragOver' = [isDragOver EXCEPT ![c] = FALSE]
    /\ cardEmitted' = DropEvents(TransferGetData(drag), cardSession[c])
    /\ cardLast' = [op |-> "drop", card |-> c, prevented |-> TRUE]
    /\ UNCHANGED <<cardSession, drag, cardStatus, pending, requested>>
    /\ opacity50' = AfterUpdate(opacity50)
    /\ UNCHANGED <<paneVars, groupVars>>

\* the session list assigns a session object with another status
SetCardStatus(c, st) ==
    /\ st # cardStatus[c]
    /\ cardStatus' = [cardStatus EXCEPT ![c] = st]
    /\ cardEmitted' = <<>>
    /\ cardLast' = CardTask("setStatus", c)
    /\ UNCHANGED <<cardSession, isDragOver, drag, pending, requested>>
    /\ opacity50' = AfterUpdate(opacity50)
    /\ UNCHANGED <<paneVars, groupVars>>

(***************************************************************************)
(* CompactSessionCard: deletion through sessionActionService.              *)
(***************************************************************************)
CardEvent(type, id, error) == [type |-> type, sessionId |-> id, error |-> error]

\* handleDelete up to its await: stopPropagation and the call of
\* deleteSession; the events it dispatches before the service reports
DeleteRequestEvents(c) == <<>>

\* callbacks.onSuccess, reading this.session when it is called
OnSuccessEvents(c) ==
    LET eventType == IF cardStatus[c] = "exited" THEN "session-cleanup"
                     ELSE "session-delete"
    IN  <<CardEvent(eventType, cardSession[c], "")>>

\* variant: the failure callback also announces the deletion
OnErrorEvents_AlsoDelete(c, error) ==
    <<CardEvent("session-kill-error", cardSession[c], error)>>
    \o OnSuccessEvents(c)

\* callbacks.onError(error), reading this.session when it is called
OnErrorEvents(c, error) ==
    <<CardEvent("session-kill-error", cardSession[c], error)>>

\* sessionActionService.deleteSession: it reports each call once, through
\* exactly one of the two callbacks
ServiceReports(c, ok, error) ==
    IF ok THEN OnSuccessEvents(c) ELSE OnErrorEvents(c, error)

\* click on the delete control of card c
CardDelete(c) ==
    /\ pending[c] < MaxPending
    /\ pending' = [pending EXCEPT ![c] = @ + 1]
    /\ requested' = [requested EXCEPT ![c] =
                        IF pending[c] = 0
                        THEN [id |-> cardSession[c], status |-> cardStatus[c]]
                        ELSE NoRequest]
    /\ cardEmitted' = DeleteRequestEvents(c)
    /\ cardLast' = CardTask("delete", c)
    /\ UNCHANGED <<cardSession, isDragOver, opacity50, drag, cardStatus>>
    /\ UNCHANGED <<paneVars, groupVars>>

\* the service reports one pending call of card c
CardDeleteReport(c, ok, error) ==
    /\ pending[c] > 0
    /\ ok => error = ""
    /\ ~ok => error # ""
    /\ pending' = [pending EXCEPT ![c] = @ - 1]
    /\ requested' = [requested EXCEPT ![c] = NoRequest]
    /\ cardEmitted' = ServiceReports(c, ok, error)
    /\ cardLast' = [op |-> IF ok THEN "deleteSucceeded" ELSE "deleteFailed",
                     card |-> c, error |-> error, session |-> requested[c]]
    /\ UNCHANGED <<cardSession, isDragOver, opacity50, drag, cardStatus>>
    /\ UNCHANGED <<paneVars, groupVars>>

\* Deletion: requests, reports of the service, and the session list
\* reassigning the card's session in between.
DeleteNext ==
    \/ \E c \in Cards, st \in CardStatuses : SetCardStatus(c, st)
    \/ \E c \in Cards, id \in Ids : SetCardSession(c, id)
    \/ \E c \in Cards : CardDelete(c)
    \/ \E c \in Cards, ok \in BOOLEAN, er \in Errors \cup {""} :
          CardDeleteReport(c, ok, er)

\* Drag and drop between the cards.
CardNext ==
    \/ \E c \in Cards, st \in CardStatuses : SetCardStatus(c, st)
    \/ \E c \in Cards, id \in Ids : SetCardSession(c, id)
    \/ \E c \in Cards, t \in BOOLEAN : CardDragStart(c, t)
    \/ \E ts \in SUBSET {SESSION_KEY, "Files"}, d \in Ids \cup {""} :
          ForeignDragStart(ts, d)
    \/ CardDragEnd
    \/ \E c \in Cards : CardDragOver(c)
    \/ \E c \in Cards : CardDragLeave(c)
    \/ \E c \in Cards : CardDrop(c)

(***************************************************************************)
(* SplitGroupCard: active and persisted projection of a split group.       *)
(***************************************************************************)
Statuses == {"running", "exited", "starting"}
GroupIds == {"", "g1", "g2"}
Modes == {"active", "persisted"}

NoSession == [present |-> FALSE, id |-> "", status |-> ""]
Sessions == {[present |-> TRUE, id |-> i, status |-> st] :
                i \in Ids, st \in Statuses}

GroupEvent(type, id) == [type |-> type, id |-> id]
GroupTask(op, tgt) == [op |-> op, tgt |-> tgt]

\* variant: one running session already counts as success
getGroupStatusColor_Or(l, r) ==
    LET leftRunning  == l.status = "running"
        rightRunning == r.status = "running"
    IN  IF leftRunning \/ rightRunning THEN "bg-status-success"
        ELSE "bg-status-error"

\* getGroupStatusColor()
getGroupStatusColor(l, r) ==
    LET leftRunning  == l.status = "running"
        rightRunning == r.status = "running"
    IN  IF leftRunning /\ rightRunning THEN "bg-status-success"
        ELSE IF leftRunning \/ rightRunning THEN "bg-status-warning"
        ELSE "bg-status-error"

\* render(): which projection is shown, and its status indicator
NoView == [kind |-> "none", color |-> ""]

\* variant: only the left session is tested
GroupRender_LeftOnlyGuard(l, r, m) ==
    IF ~l.present THEN NoView
    ELSE IF m = "persisted"
         THEN [kind |-> "persisted", color |-> getGroupStatusColor(l, r)]
         ELSE [kind |-> "active", color |-> ""]

\* variant: nothing is rendered only when both sessions are absent
GroupRender_HalfEmpty(l, r, m) ==
    IF ~l.present /\ ~r.present THEN NoView
    ELSE IF m = "persisted"
         THEN [kind |-> "persisted", color |-> getGroupStatusColor(l, r)]
         ELSE [kind |-> "active", color |-> ""]

GroupRender(l, r, m) ==
    IF ~l.present \/ ~r.present THEN NoView
    ELSE IF m = "persisted"
         THEN [kind |-> "persisted", color |-> getGroupStatusColor(l, r)]
         ELSE [kind |-> "active", color |-> ""]

\* click targets that exist in a projection
GroupTargets(v) ==
    IF v.kind = "active" THEN {"leftName", "rightName", "unsplit", "icon"}
    ELSE IF v.kind = "persisted" THEN {"header", "preview", "footer"}
    ELSE {}

GroupInit ==
    /\ leftSession \in Sessions \cup {NoSession}
    /\ rightSession \in Sessions \cup {NoSession}
    /\ mode \in Modes
    /\ groupId \in GroupIds
    /\ groupView = GroupRender(leftSession, rightSession, mode)
    /\ groupEmitted = <<>>
    /\ groupLast = GroupTask("init", "none")

\* the embedding application assigns properties
SetGroupSessions(l, r) ==
    /\ <<l, r>> # <<leftSession, rightSession>>
    /\ leftSession' = l
    /\ rightSession' = r
    /\ groupView' = GroupRender(l, r, mode)
    /\ groupEmitted' = <<>>
    /\ groupLast' = GroupTask("setSessions", "none")
    /\ UNCHANGED <<mode, groupId>>
    /\ UNCHANGED <<paneVars, cardVars>>

SetGroupMode(m, g) ==
    /\ <<m, g>> # <<mode, groupId>>
    /\ mode' = m
    /\ groupId' = g
    /\ groupView' = GroupRender(leftSession, rightSession, m)
    /\ groupEmitted' = <<>>
    /\ groupLast' = GroupTask("setMode", "none")
    /\ UNCHANGED <<leftSession, rightSession>>
    /\ UNCHANGED <<paneVars, cardVars>>

\* the handlers
handleClickLeft == <<GroupEvent("split-session-focus", leftSession.id)>>
handleClickRight == <<GroupEvent("split-session-focus", rightSession.id)>>
\* variant: unsplit carries the right session's id
handleUnsplit_Right == <<GroupEvent("unsplit", rightSession.id)>>

handleUnsplit == <<GroupEvent("unsplit", leftSession.id)>>

\* variant: the guard on an empty groupId is missing
handleRestoreClick_NoIdGuard ==
    IF mode # "persisted" THEN <<>>
    ELSE <<GroupEvent("restore-split-group", groupId)>>

handleRestoreClick ==
    IF mode # "persisted" \/ groupId = "" THEN <<>>
    ELSE <<GroupEvent("restore-split-group", groupId)>>

\* the listeners a click on a target reaches in the committed render
GroupClickEvents(tgt) ==
    IF groupView.kind = "active"
    THEN IF tgt = "leftName" THEN handleClickLeft
         ELSE IF tgt = "rightName" THEN handleClickRight
         ELSE IF tgt = "unsplit" THEN handleUnsplit
         ELSE <<>>
    ELSE IF groupView.kind = "persisted" THEN handleRestoreClick
    ELSE <<>>

GroupClick(tgt) ==
    /\ tgt \in GroupTargets(groupView)
    /\ groupEmitted' = GroupClickEvents(tgt)
    /\ groupLast' = GroupTask("click", tgt)
    /\ UNCHANGED <<leftSession, rightSession, mode, groupId, groupView>>
    /\ UNCHANGED <<paneVars, cardVars>>

GroupNext ==
    \/ \E l \in Sessions \cup {NoSession}, r \in Sessions \cup {NoSession} :
          SetGroupSessions(l, r)
    \/ \E m \in Modes, g \in GroupIds : SetGroupMode(m, g)
    \/ \E t \in {"leftName", "rightName", "unsplit", "icon",
                 "header", "preview", "footer"} : GroupClick(t)

(***************************************************************************)
(* Specifications: one per component, the other components at rest.        *)
(***************************************************************************)
CardAtRest ==
    /\ cardSession = [c \in Cards |-> "A"]
    /\ cardStatus = [c \in Cards |-> "running"]
    /\ pending = [c \in Cards |-> 0]
    /\ requested = [c \in Cards |-> NoRequest]
    /\ isDragOver = [c \in Cards |-> FALSE]
    /\ opacity50 = [c \in Cards |-> FALSE]
    /\ drag = NoDrag
    /\ cardEmitted = <<>>
    /\ cardLast = CardTask("init", 0)

GroupAtRest ==
    /\ leftSession = NoSession
    /\ rightSession = NoSession
    /\ mode = "active"
    /\ groupId = ""
    /\ groupView = NoView
    /\ groupEmitted = <<>>
    /\ groupLast = GroupTask("init", "none")

PeerAtRest == peer = PeerIdle(DEFAULT_RATIO)

PaneAtRest ==
    /\ PeerAtRest
    /\ keyboardCaptureActive = TRUE
    /\ paneProps = <<FALSE, FALSE>>
    /\ panes = <<>>
    /\ activePaneIndex = 0
    /\ splitRatio = DEFAULT_RATIO
    /\ isDragging = FALSE
    /\ dragStartX = 0
    /\ dragStartRatio = Rat(0, 1)
    /\ containerWidth = 0
    /\ connected = FALSE
    /\ hasUpdated = FALSE
    /\ docListeners = {}
    /\ bodyStyle = FALSE
    /\ dom = EmptyDom
    /\ raf = 0
    /\ emitted = <<>>
    /\ last = Task("init", "none")
    /\ ratioSrc = AtStart
    /\ focusRun = 0

Init == PaneInit /\ PeerAtRest /\ CardAtRest /\ GroupAtRest
Next == PaneNext
Spec == Init /\ [][Next]_vars

CardSpecInit == CardInit /\ PaneAtRest /\ GroupAtRest
CardSpec == CardSpecInit /\ [][CardNext]_vars

DeleteSpec == CardSpecInit /\ [][DeleteNext]_vars

RelaySpec == Init /\ [][RelayNext]_vars

FocusSpec == Init /\ [][FocusNext]_vars

PairInit ==
    /\ PaneInit
    /\ panes = <<"A", "B">>
    /\ activePaneIndex = 0
    /\ \E r \in Ratios : peer = PeerIdle(r)
    /\ CardAtRest
    /\ GroupAtRest
PairSpec == PairInit /\ [][PairNext]_vars

GroupSpecInit == GroupInit /\ PaneAtRest /\ CardAtRest
GroupSpec == GroupSpecInit /\ [][GroupNext]_vars

(***************************************************************************)
(* Properties of SplitPaneContainer.                                       *)
(***************************************************************************)
\* the last task was a pointer-move that handleMouseMove handled, or no
\* other write of splitRatio followed the last one it handled
AfterMove == last.op = "documentMouseMove" /\ ratioSrc.by = "move"
\* the last task was the pointer-up that ended a drag
AtPointerUp == last.op = "documentMouseUp" /\ emitted # <<>>

InRange(r, w) ==
    /\ NumLeq(NumDiv(MIN_WIDTH, w), r)
    /\ NumLeq(r, NumAdd(One, NumNeg(NumDiv(MIN_WIDTH, w))))

\* C1: after every pointer-move of a drag and at the pointer-up that ends it,
\* minRatio <= splitRatio <= maxRatio, with minRatio = MIN_WIDTH /
\* containerWidth and maxRatio = 1 - minRatio, for every start ratio and
\* every container width sampled at drag start.
C1_RatioWithinBounds ==
    (AfterMove \/ AtPointerUp) => InRange(splitRatio, containerWidth)

Clamp(v, lo, hi) == MathMax(lo, MathMin(hi, v))

ExpectedRatio(startRatio, deltaX, w) ==
    Clamp(NumAdd(startRatio, NumDiv(deltaX, w)),
          NumDiv(MIN_WIDTH, w),
          NumAdd(One, NumNeg(NumDiv(MIN_WIDTH, w))))

\* C2 as stated: the pointer-up released at x = startX + deltaX publishes
\* clamp(startRatio + deltaX / W, minRatio, maxRatio), whatever pointer-moves
\* (including none) came before.
C2_ReleasePositionDecides ==
    AtPointerUp =>
        emitted = <<SplitResize(ExpectedRatio(dragStartRatio,
                                              last.x - dragStartX,
                                              containerWidth))>>

\* C2 amended: the pointer-up publishes exactly one split-resize; its ratio is
\* clamp(startRatio + (xLast - startX) / W, minRatio, maxRatio) for the last
\* pointer-move xLast the drag handled, and startRatio itself when the drag
\* handled none (no assignment of splitRatio from outside since); the
\* position of the release is not read.
C2_LastMoveDecides ==
    AtPointerUp =>
        /\ Len(emitted) = 1
        /\ emitted[1].type = "split-resize"
        /\ ratioSrc.by = "move" =>
               emitted[1].ratio = ExpectedRatio(dragStartRatio,
                                                ratioSrc.x - dragStartX,
                                                containerWidth)
        /\ ratioSrc.by = "start" => emitted[1].ratio = dragStartRatio

C2_Witness ==
    /\ AtPointerUp
    /\ ratioSrc.by = "move"
    /\ ratioSrc.x # last.x
    /\ containerWidth > 2 * MIN_WIDTH
    /\ emitted[1].ratio # dragStartRatio

PaneIndexOf(tgt) == IF tgt = "left" THEN 0 ELSE 1

C4_NoFocusOutsidePanes ==
    /\ last.op = "dividerMouseDown" =>
           \A k \in 1 .. Len(emitted) : emitted[k].type # "pane-focus"
    /\ (last.op = "paneMouseDown" /\ last.tgt \in {"root", "host"}) =>
           \A k \in 1 .. Len(emitted) : emitted[k].type # "pane-focus"

C4_Witness ==
    /\ last.op = "paneMouseDown"
    /\ last.tgt = "root"
    /\ activePaneIndex = 1
    /\ dom.panes # <<>>

\* C6: once the container is disconnected (also in the middle of a drag) none
\* of its document listeners remains registered, and every later document
\* pointer-move leaves splitRatio unchanged.
C6_NoListenersAfterDisconnect ==
    /\ [](~connected => docListeners = {})
    /\ [][(~connected /\ last'.op = "documentMouseMove")
              => splitRatio' = splitRatio]_vars

C6_Witness ==
    /\ ~connected
    /\ isDragging
    /\ last.op = "documentMouseMove"

\* C7: split-resize is raised exactly once by the pointer-up that ends a drag,
\* carrying the ratio held at that moment, and by nothing else: not by a
\* pointer-move, a pointer-up outside a drag, or a disconnect.
C7_ResizeOnlyAtPointerUp ==
    [][IF last'.op = "documentMouseUp" /\ isDragging /\ "mouseup" \in docListeners
       THEN /\ emitted' = <<SplitResize(splitRatio)>>
            /\ splitRatio' = splitRatio
            /\ ~isDragging'
       ELSE \A k \in 1 .. Len(emitted') : emitted'[k].type # "split-resize"]_vars

C7_Witness ==
    /\ AtPointerUp
    /\ ~isDragging
    /\ ratioSrc.by = "move"

ListenerPair == {"mousemove", "mouseup"}

\* C13: the document pointer-move and pointer-up listeners of a container are
\* registered only while it is Dragging and always as one pair (also after a
\* second divider pointer-down during a drag); the pair is registered only by
\* a divider pointer-down and removed only by a pointer-up or a disconnect;
\* every pointer-up that ends a drag and every disconnect leaves none
\* registered, so registration and removal alternate.
C13_ListenersPairedWithDrag ==
    /\ [](/\ docListeners \in {{}, ListenerPair}
          /\ docListeners # {} => isDragging)
    /\ [][/\ (docListeners = {} /\ docListeners' # {})
                 => last'.op = "dividerMouseDown"
          /\ (docListeners # {} /\ docListeners' = {})
                 => last'.op \in {"documentMouseUp", "disconnect"}
          /\ (isDragging /\ ~isDragging') => docListeners' = {}
          /\ last'.op = "disconnect" => docListeners' = {}]_vars

C13_Witness ==
    /\ last.op = "dividerMouseDown"
    /\ isDragging
    /\ docListeners = ListenerPair
    /\ dragStartRatio.k # "fin"

\* C14: the drag session is destroyed on every exit: after a pointer-up that
\* ends a drag and after a disconnect the controller is Idle, so that in every
\* state it is Dragging exactly when its document listeners are registered.
C14_DraggingIffListeners ==
    /\ (AtPointerUp \/ last.op = "disconnect") => ~isDragging
    /\ isDragging <=> (docListeners # {})

EmittedTypes == {emitted[k].type : k \in 1 .. Len(emitted)}

\* C15: no re-layout notification (triggerTerminalResize) is dispatched to
\* pane content while the container is Dragging, neither for a ratio change
\* made during the drag nor by a frame callback scheduled before the drag
\* began.
C15_NoRefitWhileDragging ==
    isDragging => "terminal-resize" \notin EmittedTypes

\* C16: when the container width sampled at divider pointer-down is <= 0 the
\* controller still enters Dragging, every pointer-move of that drag leaves
\* splitRatio equal to the ratio at drag start and finite, and the pointer-up
\* publishes that ratio.
C16_NoRatioChangeWithoutWidth ==
    /\ last.op = "dividerMouseDown" => isDragging
    /\ (AfterMove /\ containerWidth <= 0) =>
           (splitRatio = dragStartRatio /\ IsFinite(splitRatio))
    /\ (AtPointerUp /\ containerWidth <= 0 /\ ratioSrc.by # "assigned") =>
           emitted = <<SplitResize(dragStartRatio)>>

\* C17: after a pointer-move handled while Dragging the ratio is
\* clamp(dragStartRatio + (x - dragStartX) / containerWidth, minRatio,
\* maxRatio) for the x of that move alone, whatever moves came before (the
\* same move again, or another path to the same x), and a pointer-move
\* leaves dragStartX, dragStartRatio and containerWidth unchanged.
C17_MoveIsFunctionOfSnapshot ==
    /\ [](AfterMove =>
             splitRatio = ExpectedRatio(dragStartRatio,
                                        ratioSrc.x - dragStartX,
                                        containerWidth))
    /\ [][last'.op = "documentMouseMove" =>
             /\ dragStartX' = dragStartX
             /\ dragStartRatio' = dragStartRatio
             /\ containerWidth' = containerWidth
             /\ isDragging' = isDragging]_vars

C17_Witness ==
    /\ AfterMove
    /\ isDragging
    /\ ratioSrc.x # dragStartX
    /\ containerWidth > 2 * MIN_WIDTH
    /\ IsFinite(splitRatio)
    /\ splitRatio # dragStartRatio
    /\ dragStartRatio # DEFAULT_RATIO

\* the drag controller of the first container, as a record like peer
OwnDrag ==
    [isDragging |-> isDragging, splitRatio |-> splitRatio,
     dragStartX |-> dragStartX, dragStartRatio |-> dragStartRatio,
     containerWidth |-> containerWidth, docListeners |-> docListeners]

PeerDrag ==
    [isDragging |-> peer.isDragging, splitRatio |-> peer.splitRatio,
     dragStartX |-> peer.dragStartX, dragStartRatio |-> peer.dragStartRatio,
     containerWidth |-> peer.containerWidth,
     docListeners |-> peer.docListeners]

\* C18: two containers are independent.  A task of one container (connect,
\* disconnect, divider pointer-down) leaves the other container's drag state,
\* ratio and listener registration unchanged; a document pointer-move or
\* pointer-up changes a container only if that container's own listener is
\* registered; and the document-wide text-selection and cursor override a
\* drag relies on is in force after every task for every container that is
\* Dragging, whatever the other container did.
C18_ContainersIndependent ==
    [][/\ last'.op \in {"connect", "disconnect", "dividerMouseDown"}
             => PeerDrag' = PeerDrag
       /\ last'.op \in {"peerConnect", "peerDisconnect", "peerDividerMouseDown"}
             => OwnDrag' = OwnDrag
       /\ (last'.op \in {"documentMouseMove", "documentMouseUp"}
              /\ docListeners = {}) => OwnDrag' = OwnDrag
       /\ (last'.op \in {"documentMouseMove", "documentMouseUp"}
              /\ peer.docListeners = {}) => PeerDrag' = PeerDrag
       /\ isDragging' => bodyStyle'
       /\ peer.isDragging' => bodyStyle']_vars

\* panes (0-based) whose container element exists in the committed render
PanesWithContainer ==
    {i \in 0 .. Len(panes) - 1 :
        dom.panes # <<>> /\ panes[i + 1] \in {dom.panes[1], dom.panes[2]}}

\* C19: a ratio change made while no drag is in progress (no pointer
\* listener of the container is registered before or after it) schedules a
\* frame callback, and so does the pointer-up that ends a drag; the frame that
\* runs the callbacks dispatches a re-layout notification for each pane whose
\* container exists.
C19_RefitAfterRatioChange ==
    [][/\ (splitRatio' # splitRatio /\ docListeners = {} /\ docListeners' = {})
             => raf' > raf
       /\ (isDragging /\ ~isDragging') => raf' > raf
       /\ last'.op = "runFrame" =>
             \A i \in PanesWithContainer :
                 \E k \in 1 .. Len(emitted') :
                     emitted'[k] = [type |-> "terminal-resize", index |-> i,
                                    ratio |-> NaN]]_vars

\* C20: a re-layout notification is dispatched only by a frame callback, and
\* when it is dispatched the committed render is the one of the current ratio
\* and panes: the task that changes the ratio dispatches none itself, and
\* the frame that dispatches changes neither the ratio nor the render.
C20_RefitAfterRender ==
    [][(\E k \in 1 .. Len(emitted') : emitted'[k].type = "terminal-resize") =>
          /\ last'.op = "runFrame"
          /\ splitRatio' = splitRatio
          /\ dom' = dom
          /\ dom.ratio = splitRatio
          /\ dom.panes = <<panes[1], panes[2]>>]_vars

C20_Witness ==
    /\ last.op = "runFrame"
    /\ Len(emitted) = 2
    /\ ~isDragging
    /\ IsFinite(splitRatio)
    /\ splitRatio \notin Ratios
    /\ dom.ratio = splitRatio

\* C12: an event of one of the six names raised by the content of either
\* pane is re-raised on the container as exactly one event of the same name
\* with the same detail, bubbles = true and composed = true, whatever the
\* flags of the original; an event of any other name is not re-raised.
C12_ForwardsSixNames ==
    last.op = "contentEvent" =>
        IF last.event.type \in {"navigate-to-list", "toggle-sidebar",
                                "create-session", "session-status-changed",
                                "open-settings", "capture-toggled"}
        THEN /\ Len(emitted) = 1
             /\ emitted[1].type = last.event.type
             /\ emitted[1].detail = last.event.detail
             /\ emitted[1].bubbles
             /\ emitted[1].composed
        ELSE emitted = <<>>

C12_Witness ==
    /\ last.op = "contentEvent"
    /\ last.tgt = "right"
    /\ last.event.type = "capture-toggled"
    /\ last.event.detail = "d1"
    /\ ~last.event.bubbles
    /\ ~connected
    /\ Len(emitted) = 1

(***************************************************************************)
(* Properties of CompactSessionCard.                                       *)
(***************************************************************************)
\* the session id a drag carries under the split key ("" when it carries none)
CarriedId == IF drag.hasTransfer /\ SESSION_KEY \in drag.types THEN drag.data ELSE ""

\* C5: a drop carrying session id A on the card of session B, A # B, raises
\* exactly one split-with-session {draggedSessionId: A, targetSessionId: B};
\* a drop carrying the card's own session id raises nothing; dragstart,
\* dragover, dragleave and dragend never raise split-with-session.
C5_DropRaisesSplit ==
    /\ (cardLast.op = "drop" /\ CarriedId # "") =>
           LET a == CarriedId
               b == cardSession[cardLast.card]
           IN  IF a # b
               THEN cardEmitted = <<[type |-> "split-with-session",
                                     dragged |-> a, target |-> b]>>
               ELSE cardEmitted = <<>>
    /\ cardLast.op \in {"dragstart", "dragover", "dragleave", "dragend"} =>
           \A k \in 1 .. Len(cardEmitted) :
               cardEmitted[k].type # "split-with-session"

C5_Witness ==
    /\ cardLast.op = "drop"
    /\ drag.source \in Cards
    /\ drag.source # cardLast.card
    /\ Len(cardEmitted) = 1

DeletionTypes == {"session-delete", "session-cleanup", "session-kill-error"}

CardTypes == {cardEmitted[k].type : k \in 1 .. Len(cardEmitted)}

\* C11: a delete request raises nothing itself; session-delete (or
\* session-cleanup for an exited session) with the card's session id is raised
\* only when deleteSession reports success; when it reports failure exactly
\* one session-kill-error {sessionId, error} is raised and neither
\* session-delete nor session-cleanup; no other task raises any of the three.
C11_DeleteEventsFollowService ==
    /\ cardLast.op = "deleteSucceeded" =>
           cardEmitted =
               <<[type |-> IF cardStatus[cardLast.card] = "exited"
                           THEN "session-cleanup" ELSE "session-delete",
                  sessionId |-> cardSession[cardLast.card], error |-> ""]>>
    /\ cardLast.op = "deleteFailed" =>
           cardEmitted =
               <<[type |-> "session-kill-error",
                  sessionId |-> cardSession[cardLast.card],
                  error |-> cardLast.error]>>
    /\ cardLast.op \notin {"deleteSucceeded", "deleteFailed"} =>
           CardTypes \cap DeletionTypes = {}

C11_Witness ==
    /\ cardLast.op = "deleteFailed"
    /\ cardLast.error = "e2"
    /\ pending[cardLast.card] = 1
    /\ cardStatus[cardLast.card] = "exited"
    /\ Len(cardEmitted) = 1

(***************************************************************************)
(* Properties of SplitGroupCard.                                           *)
(***************************************************************************)
GroupClicked(kind) == groupLast.op = "click" /\ groupView.kind = kind

GroupTypes == {groupEmitted[k].type : k \in 1 .. Len(groupEmitted)}

\* C8 as stated: in persisted mode a click on the card with groupId g raises
\* exactly one restore-split-group {groupId: g}, for every g.
C8_RestoreForEveryGroupId ==
    GroupClicked("persisted") =>
        groupEmitted = <<[type |-> "restore-split-group", id |-> groupId]>>

\* C8 amended: in persisted mode a click on the card with a non-empty groupId
\* g raises exactly one restore-split-group {groupId: g} and neither
\* split-session-focus nor unsplit; with the empty (default) groupId the click
\* raises nothing; in active mode no click raises restore-split-group.
C8_RestoreForNonEmptyGroupId ==
    /\ (GroupClicked("persisted") /\ groupId # "") =>
           groupEmitted = <<[type |-> "restore-split-group", id |-> groupId]>>
    /\ (GroupClicked("persisted") /\ groupId = "") => groupEmitted = <<>>
    /\ GroupClicked("active") => "restore-split-group" \notin GroupTypes

C8_Witness ==
    /\ GroupClicked("persisted")
    /\ groupId = "g1"
    /\ Len(groupEmitted) = 1

\* C9: in active mode a click on the left (right) session name raises exactly
\* one split-session-focus with the left (right) session's id, and a click on
\* the unsplit control raises exactly one unsplit with the left session's id
\* and no split-session-focus.
C9_ActiveModeClicks ==
    GroupClicked("active") =>
        /\ groupLast.tgt = "leftName" =>
               groupEmitted = <<[type |-> "split-session-focus",
                                 id |-> leftSession.id]>>
        /\ groupLast.tgt = "rightName" =>
               groupEmitted = <<[type |-> "split-session-focus",
                                 id |-> rightSession.id]>>
        /\ groupLast.tgt = "unsplit" =>
               groupEmitted = <<[type |-> "unsplit", id |-> leftSession.id]>>

C9_Witness ==
    /\ GroupClicked("active")
    /\ groupLast.tgt = "unsplit"
    /\ leftSession.id # rightSession.id
    /\ Len(groupEmitted) = 1

\* number of the two sessions whose status is 'running'
RunningCount ==
    (IF leftSession.status = "running" THEN 1 ELSE 0)
    + (IF rightSession.status = "running" THEN 1 ELSE 0)

\* C10: the status indicator of the persisted projection depends on the two
\* statuses only: both running gives bg-status-success, exactly one running
\* bg-status-warning, neither running bg-status-error.
C10_StatusColor ==
    groupView.kind = "persisted" =>
        groupView.color = CASE RunningCount = 2 -> "bg-status-success"
                            [] RunningCount = 1 -> "bg-status-warning"
                            [] RunningCount = 0 -> "bg-status-error"

C10_Witness ==
    /\ groupView.kind = "persisted"
    /\ RunningCount = 1
    /\ leftSession.status = "starting"
    /\ groupLast.op = "setSessions"

(***************************************************************************)
(* C21..C30                                                                *)
(***************************************************************************)
\* C21 as stated: the focus arbiter runs before any handler of pane content,
\* so a pointer-down inside a pane that is not the active one raises pane-focus
\* with that pane's index whether or not the content stops propagation, and on
\* the divider the arbiter runs first and ignores the event before
\* handleDividerMouseDown starts the drag.
C21_CaptureBeforeContent ==
    /\ (last.op = "contentMouseDown"
        /\ PaneIndexOf(last.tgt) # activePaneIndex)
       => /\ last.ran = <<"handlePaneMouseDown", "content">>
          /\ emitted = <<PaneFocus(PaneIndexOf(last.tgt))>>
    /\ last.op = "dividerMouseDown"
       => /\ last.ran = <<"handlePaneMouseDown", "handleDividerMouseDown">>
          /\ emitted = <<>>

\* C22: a drag-over is accepted (default prevented, drop effect 'move',
\* isDragOver set on the card) only when the transfer carries the key
\* application/vt-session-id; a drag-over without the key prevents nothing,
\* writes no drop effect, raises nothing and leaves every card's isDragOver and
\* dragged class as they were; a drop whose payload under the key is missing
\* or empty raises no event.
C22_DragOverNeedsKey ==
    [][/\ cardLast'.op = "dragover" =>
             IF TransferHasKey(drag')
             THEN /\ cardLast'.prevented
                  /\ cardLast'.dropEffect = "move"
                  /\ isDragOver'[cardLast'.card]
             ELSE /\ ~cardLast'.prevented
                  /\ cardLast'.dropEffect = ""
                  /\ isDragOver' = isDragOver
                  /\ opacity50' = opacity50
                  /\ cardEmitted' = <<>>
       /\ (cardLast'.op = "drop" /\ TransferGetData(drag') = "") =>
             cardEmitted' = <<>>]_vars

C22_Witness ==
    /\ cardLast.op = "dragover"
    /\ drag.hasTransfer
    /\ "Files" \in drag.types
    /\ ~TransferHasKey(drag)
    /\ \E c \in Cards : isDragOver[c]

GroupEventTypes == {groupEmitted[k].type : k \in 1 .. Len(groupEmitted)}

\* C23: whenever the left or the right session is absent, in active and in
\* persisted mode, the card renders nothing: the committed render has no
\* click target, the last task was not a click and no event was raised.
C23_NothingWithoutBothSessions ==
    (~leftSession.present \/ ~rightSession.present) =>
        /\ groupView = NoView
        /\ GroupTargets(groupView) = {}
        /\ groupLast.op # "click"
        /\ GroupEventTypes = {}

C23_Witness ==
    /\ leftSession.present
    /\ ~rightSession.present
    /\ mode = "active"
    /\ groupLast.op = "setSessions"
    /\ groupView = NoView

\* exactly one of the two sessions is absent
OneSessionAbsent == leftSession.present # rightSession.present

C25_NothingWithFewerThanTwoPanes ==
    Len(panes) < 2 =>
        /\ dom.panes = <<>>
        /\ EmittedTypes \cap {"pane-focus", "split-resize"} = {}
        /\ last.op # "dividerMouseDown"

\* C26: the dragged class set at drag start is off the source card after its
\* drag end, whether or not a drop happened in between, and isDragOver of a
\* card is false after every drag-leave and every drop on it (accepted,
\* self-drop or without payload).
C26_DragVisualsCleared ==
    /\ (cardLast.op = "dragend" /\ cardLast.card \in Cards) =>
           ~opacity50[cardLast.card]
    /\ cardLast.op \in {"dragleave", "drop"} => ~isDragOver[cardLast.card]

C26_Witness ==
    /\ cardLast.op = "dragend"
    /\ cardLast.card \in Cards
    /\ \E c \in Cards : c # cardLast.card /\ isDragOver[c]

\* C27: the override of document.body.style (user-select, cursor) is in effect
\* only while some container is Dragging, and after every exit from Dragging
\* (the pointer-up that ends a drag, a disconnect) with no other container
\* Dragging the override is cleared.
C27_OverrideOnlyWhileDragging ==
    /\ bodyStyle => (isDragging \/ peer.isDragging)
    /\ ((AtPointerUp \/ last.op = "disconnect") /\ ~peer.isDragging)
          => ~bodyStyle

\* C28: the event raised when the service reports a delete refers to the
\* session that was passed to deleteSession: it carries that session's id, and
\* on success it is session-cleanup exactly when that session's status was
\* 'exited' at request time, whatever was assigned to the card in between.
\* (Stated for a report of the only call in flight, whose session is known.)
C28_EventRefersToRequestedSession ==
    (cardLast.op \in {"deleteSucceeded", "deleteFailed"}
     /\ cardLast.session # NoRequest) =>
        /\ Len(cardEmitted) = 1
        /\ cardEmitted[1].sessionId = cardLast.session.id
        /\ cardLast.op = "deleteSucceeded" =>
              cardEmitted[1].type = (IF cardLast.session.status = "exited"
                                     THEN "session-cleanup"
                                     ELSE "session-delete")

\* C29: in every committed render at most one pane has keyboard capture
\* active, pane i has it only if activePaneIndex = i and the container's
\* keyboardCaptureActive is true, and no task of the container itself changes
\* activePaneIndex: only an assignment by the embedding application does.
C29_OneKeyboardCapture ==
    [][/\ ~(paneProps'[1] /\ paneProps'[2])
       /\ \A i \in {0, 1} :
             paneProps'[i + 1] =>
                 activePaneIndex' = i /\ keyboardCaptureActive'
       /\ activePaneIndex' # activePaneIndex =>
             last'.op = "setActivePaneIndex"]_vars

C29_Witness ==
    /\ paneProps = <<FALSE, TRUE>>
    /\ last.op = "contentMouseDown"
    /\ emitted = <<PaneFocus(0)>>

\* C30: every pane-focus carries index 0 or 1, and the index is the position
\* of the pane element the pointer target lies in, also when both panes
\* reference the same session id and when more than two panes are supplied.
C30_FocusIndexIsTargetPane ==
    \A k \in 1 .. Len(emitted) :
        emitted[k].type = "pane-focus" =>
            /\ emitted[k].index \in {0, 1}
            /\ last.op = "contentMouseDown"
            /\ emitted[k].index = PaneIndexOf(last.tgt)

C30_Witness ==
    /\ panes = <<"A", "A">>
    /\ last.op = "contentMouseDown"
    /\ last.tgt = "left"
    /\ last.stops
    /\ emitted = <<PaneFocus(0)>>

====
